---- MODULE Spec2Model ----
(***************************************************************************)
(* State-machine model of the Sound handle of rust-fmod (src/src/sound.rs) *)
(* and of its WAV export routine, Sound::save_to_wav.                      *)
(*                                                                         *)
(* The native engine (FMOD) is an external collaborator: every engine call *)
(* returns a result code chosen nondeterministically.                      *)
(***************************************************************************)
EXTENDS Integers, Sequences, FiniteSets, TLC

\* ------------------------------------------------------------------ bounds
\* Cap on the engine release calls issued through one handle.
MaxReleaseCalls == 2
\* Cap on the outstanding (not yet unlocked) engine locks taken through one handle.
MaxLocks == 2
\* Largest PCM payload length (bytes) of a sound.
MaxLen == 3

\* --------------------------------------------------------------- constants
\* ::std::ptr::mut_null()
Null == 0

\* The wrapper objects the program holds.
Handles == {"h1", "h2"}
\* The native sound identifiers the engine hands out.
NativeIds == {1, 2}

\* fmod::Result values: fmod::Ok and two engine error codes.
FmodOk == [code |-> "Ok"]
FmodErrors == {[code |-> "ErrInvalidHandle"], [code |-> "ErrNotReady"]}
FmodResults == {FmodOk} \cup FmodErrors

VARIABLES
    handles,    \* handle -> the Sound struct (and whether the object exists)
    alive,      \* native ids the engine has created and not released
    relCalls,   \* handle -> number of FMOD_Sound_Release calls issued through it
    locked,     \* handle -> successful FMOD_Sound_Lock calls not yet unlocked
    chan,       \* the Channel struct (and whether the object exists)
    last,       \* the last operation: its handle, result and engine calls
    wavIn,      \* what the engine answers about the exported sound
    wav,        \* the last save_to_wav run: result, file on disk, event log
    ud,         \* user data: each Sound's SoundData field, the engine's slots
    pte         \* the play_to_the_end call in progress

vars == <<handles, alive, relCalls, locked, chan, last, wavIn, wav, ud, pte>>
regVars == <<handles, alive, relCalls, locked, chan, last>>
wavVars == <<wavIn, wav>>

\* ------------------------------------------------------------ Sound struct
\* A slot that holds no Sound object yet.
NoSound == [st |-> "none", sound |-> Null, can_be_deleted |-> FALSE, via |-> "none"]

\* Mutant of from_ptr: the wrapped sound is marked as deletable.
from_ptr_Owning(sound) ==
    [st |-> "live", sound |-> sound, can_be_deleted |-> TRUE, via |-> "from_ptr"]

\* sound::from_ptr: a handle that does not own the native sound.
from_ptr(sound) ==
    [st |-> "live", sound |-> sound, can_be_deleted |-> FALSE, via |-> "from_ptr"]

\* sound::from_ptr_first: the handle that owns the native sound.
from_ptr_first(sound) ==
    [st |-> "live", sound |-> sound, can_be_deleted |-> TRUE, via |-> "from_ptr_first"]

\* One engine call: the function, the native reference passed, the code the
\* engine returned and the value of its pointer parameter (what the engine
\* wrote to an output, or the pointer that was passed in).
Call(fn, ref, r, out) == [fn |-> fn, ref |-> ref, code |-> r.code, out |-> out]

\* The record of one operation of the binding: the handle it was called on
\* ("ch" for the channel), the native reference and the outstanding locks of
\* that handle before the call, what it returned and the engine calls it
\* made. tag is "Ok" / "Err" for a Result<T, fmod::Result>, "code" for a
\* plain fmod::Result and "unit" for no return value; res is the fmod::Result
\* carried and val the value of an Ok.
Op(op, h, pre, lk, tag, res, val, calls) ==
    [op |-> op, h |-> h, pre |-> pre, lk |-> lk, tag |-> tag, res |-> res,
     val |-> val, calls |-> calls]

NoOp == Op("none", "h1", Null, 0, "unit", FmodOk, 0, <<>>)

\* What the engine may write to an output parameter.
EngineOuts == {0, 1}

\* ------------------------------------------------------ Sound::release
\* Mutant of the guard: the ownership flag is not consulted.
ReleaseReachesEngine_NoOwnerCheck(s) == s.sound # Null

\* The guard of Sound::release: only an owning handle with a non-null
\* reference reaches the engine.
ReleaseReachesEngine(s) == s.can_be_deleted /\ s.sound # Null

\* The Sound struct after release(), given the engine's answer r.
ReleaseSound(s, r) ==
    IF ReleaseReachesEngine(s) /\ r = FmodOk
    THEN [s EXCEPT !.sound = Null]
    ELSE s

\* The value release() returns, given the engine's answer r.
ReleaseResult(s, r) == IF ReleaseReachesEngine(s) THEN r ELSE FmodOk

\* The engine calls of release() on the Sound struct s.
ReleaseCalls(s, r) ==
    IF ReleaseReachesEngine(s)
    THEN <<Call("FMOD_Sound_Release", s.sound, r, 0)>>
    ELSE <<>>

\* The body of release() on handle h with engine answer r; st is the state
\* of the object afterwards ("live" for an explicit call, "dropped" in Drop).
ReleaseBody(h, r, op, st) ==
    LET s == handles[h]
        reaches == ReleaseReachesEngine(s)
    IN  /\ reaches => relCalls[h] < MaxReleaseCalls
        /\ handles' = [handles EXCEPT ![h] = [ReleaseSound(s, r) EXCEPT !.st = st]]
        /\ relCalls' = [relCalls EXCEPT ![h] = IF reaches THEN @ + 1 ELSE @]
        /\ alive' = IF reaches /\ r = FmodOk THEN alive \ {s.sound} ELSE alive
        /\ last' = Op(op, h, s.sound, locked[h],
                      IF op = "drop" THEN "unit" ELSE "code",
                      ReleaseResult(s, r), 0, ReleaseCalls(s, r))
        /\ UNCHANGED <<locked, chan, wavVars, ud, pte>>

\* Sound::release called by the program.
Release(h) ==
    /\ handles[h].st = "live"
    /\ \E r \in FmodResults : ReleaseBody(h, r, "release", "live")

\* impl Drop for Sound: the handle goes out of scope, drop calls release().
Drop(h) ==
    /\ handles[h].st = "live"
    /\ \E r \in FmodResults : ReleaseBody(h, r, "drop", "dropped")

\* ------------------------------------------------------------- creation
\* A sound is created by the engine and wrapped by from_ptr_first.
CreateSound(h) ==
    /\ handles[h].st = "none"
    /\ \E p \in NativeIds \ alive :
        /\ handles' = [handles EXCEPT ![h] = from_ptr_first(p)]
        /\ alive' = alive \cup {p}
        /\ last' = Op("create", h, Null, 0, "Ok", FmodOk, 0, <<>>)
    /\ UNCHANGED <<relCalls, locked, chan, wavVars, ud, pte>>

\* Sound::get_sub_sound: on success the engine's sub-sound is wrapped by
\* from_ptr in a new handle h2.
GetSubSound(h, h2) ==
    /\ handles[h].st = "live"
    /\ handles[h2].st = "none"
    /\ \E r \in FmodResults, sub \in NativeIds \cup {Null} :
        /\ r # FmodOk => sub = Null
        /\ handles' = IF r = FmodOk
                      THEN [handles EXCEPT ![h2] = from_ptr(sub)]
                      ELSE handles
        /\ last' = Op("get_sub_sound", h, handles[h].sound, locked[h],
                      IF r = FmodOk THEN "Ok" ELSE "Err", r, 0,
                      <<Call("FMOD_Sound_GetSubSound", handles[h].sound, r, sub)>>)
    /\ UNCHANGED <<alive, relCalls, locked, chan, wavVars, ud, pte>>

\* Sound::set_sub_sound(&self, index, sub_sound: Sound): the sub-sound is
\* passed by value, so it goes out of scope when set_sub_sound returns and
\* its drop calls release().
SetSubSound(h, h2) ==
    /\ h # h2
    /\ handles[h].st = "live"
    /\ handles[h2].st = "live"
    /\ \E r \in FmodResults, r2 \in FmodResults :
        LET parent == handles[h]
            child == handles[h2]
            reaches == ReleaseReachesEngine(child)
        IN  /\ reaches => relCalls[h2] < MaxReleaseCalls
            /\ ~reaches => r2 = FmodOk
            /\ handles' = [handles EXCEPT
                             ![h2] = [ReleaseSound(child, r2) EXCEPT !.st = "dropped"]]
            /\ relCalls' = [relCalls EXCEPT ![h2] = IF reaches THEN @ + 1 ELSE @]
            /\ alive' = IF reaches /\ r2 = FmodOk THEN alive \ {child.sound} ELSE alive
            /\ last' = Op("set_sub_sound", h, parent.sound, locked[h], "code", r, 0,
                          <<Call("FMOD_Sound_SetSubSound", parent.sound, r, child.sound)>>
                          \o ReleaseCalls(child, r2))
    /\ UNCHANGED <<locked, chan, wavVars, ud, pte>>

\* ------------------------------------------------------------ accessors
\* Mutant of the forwarding: the accessor also releases the native object.
Forward_ThenRelease(fn, ref, r, out) ==
    <<Call(fn, ref, r, out), Call("FMOD_Sound_Release", ref, r, 0)>>

\* Mutant of the forwarding: a failed engine call is issued a second time.
Forward_Retry(fn, ref, r, out) ==
    IF r = FmodOk THEN <<Call(fn, ref, r, out)>>
    ELSE <<Call(fn, ref, r, out), Call(fn, ref, r, out)>>

\* The engine calls of a forwarding accessor: the one call `unsafe { ffi::fn(ref, ..) }`.
Forward(fn, ref, r, out) == <<Call(fn, ref, r, out)>>

\* `match .. { fmod::Ok => Ok(v), e => Err(e) }`: the record of a getter that
\* forwards to fn and returns value v on success.
Getter(op, h, pre, lk, fn, r, out, v) ==
    Op(op, h, pre, lk, IF r = FmodOk THEN "Ok" ELSE "Err", r,
       IF r = FmodOk THEN v ELSE 0, Forward(fn, pre, r, out))

\* The record of a setter, which returns the engine's code as it is.
Setter(op, h, pre, lk, fn, r) ==
    Op(op, h, pre, lk, "code", r, 0, Forward(fn, pre, r, 0))

\* The answers of the engine to a call with an output parameter: a code,
\* and a value when the code is fmod::Ok (the output is left at 0 otherwise).
EngineAnswers ==
    {<<r, out>> \in FmodResults \X EngineOuts : r # FmodOk => out = 0}

\* Sound::get_length: forwards self.sound to the engine.
GetLength(h) ==
    /\ handles[h].st = "live"
    /\ \E a \in EngineAnswers :
        last' = Getter("get_length", h, handles[h].sound, locked[h],
                       "FMOD_Sound_GetLength", a[1], a[2], a[2])
    /\ UNCHANGED <<handles, alive, relCalls, locked, chan, wavVars, ud, pte>>

\* Sound::get_format: forwards self.sound to the engine (the four outputs
\* are modelled as one value).
GetFormat(h) ==
    /\ handles[h].st = "live"
    /\ \E a \in EngineAnswers :
        last' = Getter("get_format", h, handles[h].sound, locked[h],
                       "FMOD_Sound_GetFormat", a[1], a[2], a[2])
    /\ UNCHANGED <<handles, alive, relCalls, locked, chan, wavVars, ud, pte>>

\* Sound::set_mode: returns the engine's code.
SetMode(h) ==
    /\ handles[h].st = "live"
    /\ \E r \in FmodResults :
        last' = Setter("set_mode", h, handles[h].sound, locked[h],
                       "FMOD_Sound_SetMode", r)
    /\ UNCHANGED <<handles, alive, relCalls, locked, chan, wavVars, ud, pte>>

\* The objects a program may attach to a sound (their addresses).
UserData == {1, 2}

\* No handle's SoundData field is set, every engine slot is empty, and no
\* set_user_data has succeeded. field[h] is Sound.user_data.user_data of
\* handle h; slot[p] names the handle whose SoundData the engine's user data
\* pointer of sound p points to; want[p] is the object of the last
\* set_user_data on sound p that returned fmod::Ok.
NoUserData ==
    [field |-> [h \in Handles |-> Null],
     slot |-> [p \in NativeIds |-> "null"],
     want |-> [p \in NativeIds |-> Null]]

\* The pointer FMOD_Sound_GetUserData writes for native reference s when it
\* answers r.
EngineUserData(s, r) == IF r = FmodOk /\ s # Null THEN ud.slot[s] ELSE "null"

\* Sound::set_user_data(d): reads the engine's slot; when the slot is empty
\* it stores null in its own SoundData and registers that; when the slot
\* points to a SoundData it stores d there and registers it again; when the
\* read failed it stores d in its own SoundData and registers that. The
\* code of FMOD_Sound_SetUserData is returned.
SetUserData(h, d) ==
    /\ handles[h].st = "live"
    /\ \E r1 \in FmodResults, r2 \in FmodResults :
        LET s == handles[h].sound
            data == EngineUserData(s, r1)
            target == IF r1 = FmodOk /\ data # "null" THEN data ELSE h
            stored == IF r1 = FmodOk /\ data = "null" THEN Null ELSE d
        IN  /\ ud' = [field |-> [ud.field EXCEPT ![target] = stored],
                      slot |-> IF r2 = FmodOk /\ s # Null
                               THEN [ud.slot EXCEPT ![s] = target]
                               ELSE ud.slot,
                      want |-> IF r2 = FmodOk /\ s # Null
                               THEN [ud.want EXCEPT ![s] = d]
                               ELSE ud.want]
            /\ last' = Op("set_user_data", h, s, locked[h], "code", r2, d,
                          <<Call("FMOD_Sound_GetUserData", s, r1,
                                 IF data = "null" THEN Null ELSE 1),
                            Call("FMOD_Sound_SetUserData", s, r2, 1)>>)
    /\ UNCHANGED <<handles, alive, relCalls, locked, chan, wavVars, pte>>

\* Sound::get_user_data: Ok(SoundData.user_data) of the SoundData the
\* engine's pointer leads to, Err(fmod::Ok) when the engine answers fmod::Ok
\* with a null pointer, Err(e) when the engine answers e.
GetUserData(h) ==
    /\ handles[h].st = "live"
    /\ \E r \in FmodResults :
        LET s == handles[h].sound
            data == EngineUserData(s, r)
        IN  last' = Op("get_user_data", h, s, locked[h],
                       IF r = FmodOk /\ data # "null" THEN "Ok" ELSE "Err",
                       r, IF r = FmodOk /\ data # "null" THEN ud.field[data] ELSE 0,
                       <<Call("FMOD_Sound_GetUserData", s, r,
                              IF data = "null" THEN Null ELSE 1)>>)
    /\ UNCHANGED <<handles, alive, relCalls, locked, chan, wavVars, ud, pte>>

\* The address of the sample memory the engine hands out in ptr1, and the
\* address of the buffer of the Vec that lock() fills with a copy of it
\* (Vec::from_slice allocates, so the two differ).
RegionAddr == 1
VecAddr == 2

\* Sound::lock: forwards to FMOD_Sound_Lock and returns copies of the two
\* regions (the first one is modelled).
Lock(h) ==
    /\ handles[h].st = "live"
    /\ locked[h] < MaxLocks
    /\ \E r \in FmodResults :
        /\ locked' = [locked EXCEPT ![h] = IF r = FmodOk THEN @ + 1 ELSE @]
        /\ last' = Getter("lock", h, handles[h].sound, locked[h],
                          "FMOD_Sound_Lock", r,
                          IF r = FmodOk THEN RegionAddr ELSE Null, VecAddr)
    /\ UNCHANGED <<handles, alive, relCalls, chan, wavVars, ud, pte>>

\* Sound::unlock: passes v_ptr1.as_ptr(), the buffer of the caller's Vec
\* (the one lock() returned), to FMOD_Sound_Unlock.
Unlock(h) ==
    /\ handles[h].st = "live"
    /\ \E r \in FmodResults :
        /\ locked' = [locked EXCEPT ![h] =
                        IF r = FmodOk /\ @ > 0 THEN @ - 1 ELSE @]
        /\ last' = Op("unlock", h, handles[h].sound, locked[h], "code", r, 0,
                      Forward("FMOD_Sound_Unlock", handles[h].sound, r, VecAddr))
    /\ UNCHANGED <<handles, alive, relCalls, chan, wavVars, ud, pte>>

\* -------------------------------------------------------------- Channel
\* The slot before the program holds a Channel.
NoChannel == [st |-> "none", channel |-> Null]

\* channel::from_ptr
channel_from_ptr(channel) == [st |-> "live", channel |-> channel]

\* Sound::play: get_system_object, then FMOD_System_PlaySound; the engine's
\* channel is wrapped by channel::from_ptr.
Play(h) ==
    /\ handles[h].st = "live"
    /\ chan.st = "none"
    /\ \E rs \in FmodResults, r \in FmodResults :
        LET c1 == Call("FMOD_Sound_GetSystemObject", handles[h].sound, rs, 0)
            c2 == Call("FMOD_System_PlaySound", handles[h].sound, r, 1)
        IN  /\ rs # FmodOk => r = FmodOk
            /\ chan' = IF rs = FmodOk /\ r = FmodOk THEN channel_from_ptr(1) ELSE chan
            /\ last' = IF rs # FmodOk
                       THEN Op("play", h, handles[h].sound, locked[h], "Err", rs, 0, <<c1>>)
                       ELSE Op("play", h, handles[h].sound, locked[h],
                               IF r = FmodOk THEN "Ok" ELSE "Err", r, 0, <<c1, c2>>)
    /\ UNCHANGED <<handles, alive, relCalls, locked, wavVars, ud, pte>>

\* channel::new() called by the program: a Channel with a null reference.
channel_new == [st |-> "live", channel |-> Null]

ChannelNew ==
    /\ chan.st = "none"
    /\ chan' = channel_new
    /\ last' = Op("channel_new", "ch", Null, 0, "unit", FmodOk, 0, <<>>)
    /\ UNCHANGED <<handles, alive, relCalls, locked, wavVars, ud, pte>>

\* Channel::is_init
is_init(c) == c.channel # Null

\* Sound::play_with_parameters(paused, channel): the caller's reference is
\* copied into the local chan, FMOD_System_PlaySound (ChannelReUse) writes
\* the channel it started to that local, and the engine's code is returned.
\* The caller's Channel is not assigned.
PlayWithParameters(h) ==
    /\ handles[h].st = "live"
    /\ chan.st = "live"
    /\ \E rs \in FmodResults, r \in FmodResults :
        LET started == IF r # FmodOk THEN Null
                       ELSE IF chan.channel # Null THEN chan.channel ELSE 1
            c1 == Call("FMOD_Sound_GetSystemObject", handles[h].sound, rs, 0)
            c2 == Call("FMOD_System_PlaySound", handles[h].sound, r, started)
        IN  /\ rs # FmodOk => r = FmodOk
            /\ last' = IF rs # FmodOk
                       THEN Op("play_with_parameters", h, handles[h].sound,
                               locked[h], "code", rs, 0, <<c1>>)
                       ELSE Op("play_with_parameters", h, handles[h].sound,
                               locked[h], "code", r, 0, <<c1, c2>>)
    /\ UNCHANGED <<handles, alive, relCalls, locked, chan, wavVars, ud, pte>>

\* Mutant of Channel::release: the reference is kept.
ChannelReleased_Keep(c) == c

\* The Channel struct after Channel::release.
ChannelReleased(c) == [c EXCEPT !.channel = Null]

\* Channel::release: clears the wrapper's reference.
ChannelRelease ==
    /\ chan.st = "live"
    /\ chan' = ChannelReleased(chan)
    /\ last' = Op("channel_release", "ch", chan.channel, 0, "unit", FmodOk, 0, <<>>)
    /\ UNCHANGED <<handles, alive, relCalls, locked, wavVars, ud, pte>>

\* impl Drop for Channel: the Channel goes out of scope, drop calls release().
ChannelDrop ==
    /\ chan.st = "live"
    /\ chan' = [ChannelReleased(chan) EXCEPT !.st = "dropped"]
    /\ last' = Op("channel_drop", "ch", chan.channel, 0, "unit", FmodOk, 0, <<>>)
    /\ UNCHANGED <<handles, alive, relCalls, locked, wavVars, ud, pte>>

\* Channel::is_playing: Ok(is_playing == 1).
ChannelIsPlaying ==
    /\ chan.st = "live"
    /\ \E a \in EngineAnswers :
        last' = Getter("is_playing", "ch", chan.channel, 0,
                       "FMOD_Channel_IsPlaying", a[1], a[2],
                       IF a[2] = 1 THEN 1 ELSE 0)
    /\ UNCHANGED <<handles, alive, relCalls, locked, chan, wavVars, ud, pte>>

\* Channel::get_volume
ChannelGetVolume ==
    /\ chan.st = "live"
    /\ \E a \in EngineAnswers :
        last' = Getter("get_volume", "ch", chan.channel, 0,
                       "FMOD_Channel_GetVolume", a[1], a[2], a[2])
    /\ UNCHANGED <<handles, alive, relCalls, locked, chan, wavVars, ud, pte>>

\* Channel::set_volume
ChannelSetVolume ==
    /\ chan.st = "live"
    /\ \E r \in FmodResults :
        last' = Setter("set_volume", "ch", chan.channel, 0,
                       "FMOD_Channel_SetVolume", r)
    /\ UNCHANGED <<handles, alive, relCalls, locked, chan, wavVars, ud, pte>>

\* Channel::get_current_sound: on success the engine's sound is wrapped by
\* sound::from_ptr in a new handle h2.
GetCurrentSound(h2) ==
    /\ chan.st = "live"
    /\ handles[h2].st = "none"
    /\ \E r \in FmodResults, snd \in NativeIds \cup {Null} :
        /\ r # FmodOk => snd = Null
        /\ handles' = IF r = FmodOk
                      THEN [handles EXCEPT ![h2] = from_ptr(snd)]
                      ELSE handles
        /\ last' = Op("get_current_sound", "ch", chan.channel, 0,
                      IF r = FmodOk THEN "Ok" ELSE "Err", r, 0,
                      <<Call("FMOD_Channel_GetCurrentSound", chan.channel, r, snd)>>)
    /\ UNCHANGED <<alive, relCalls, locked, chan, wavVars, ud, pte>>


\* ------------------------------------------------- Sound::play_to_the_end
\* No play_to_the_end call yet. chan is the local Channel of the call, play
\* the code of self.play(), prev and cur the answers of the last two
\* is_playing polls ("none", "playing", "stopped" or the engine's error) and
\* res the code returned.
PteIdle ==
    [pc |-> "idle", chan |-> Null, play |-> "", prev |-> "none",
     cur |-> "none", res |-> ""]

\* The code self.play() is matched on: that of get_system_object when it
\* failed, that of FMOD_System_PlaySound otherwise.
PlayCode(rs, r) == IF rs # FmodOk THEN rs ELSE r

\* What one chan.is_playing() reports, for the engine's answer a.
PollAnswer(a) ==
    IF a[1] # FmodOk THEN a[1].code
    ELSE IF a[2] = 1 THEN "playing" ELSE "stopped"

\* Mutant of the loop: it polls again whatever the poll reported.
KeepPolling_Always(a) == TRUE

\* `Ok(b) => if b == true { sleep(30) } else { break }`: the loop goes round
\* again only after a poll that reported playing.
KeepPolling(a) == a[1] = FmodOk /\ a[2] = 1

\* play_to_the_end is called on handle h: self.play().
PteCall(h) ==
    /\ pte.pc = "idle"
    /\ handles[h].st = "live"
    /\ \E rs \in FmodResults, r \in FmodResults :
        /\ rs # FmodOk => r = FmodOk
        /\ pte' = IF PlayCode(rs, r) = FmodOk
                  THEN [PteIdle EXCEPT !.pc = "polling", !.chan = 1, !.play = "Ok"]
                  ELSE [PteIdle EXCEPT !.pc = "done",
                                       !.play = PlayCode(rs, r).code,
                                       !.res = PlayCode(rs, r).code]
    /\ UNCHANGED <<regVars, wavVars, ud>>

\* One turn of the loop with the engine's answer a: the poll, then the
\* sleep, or `return e` (chan goes out of scope), or the break followed by
\* chan.release() and fmod::Ok.
PtePollWith(a) ==
    /\ pte.pc = "polling"
    /\ pte' = IF KeepPolling(a)
              THEN [pte EXCEPT !.prev = pte.cur, !.cur = PollAnswer(a)]
              ELSE [pte EXCEPT !.prev = pte.cur, !.cur = PollAnswer(a),
                               !.pc = "done", !.chan = Null,
                               !.res = IF a[1] # FmodOk THEN a[1].code ELSE "Ok"]
    /\ UNCHANGED <<regVars, wavVars, ud>>

PtePoll == \E a \in EngineAnswers : PtePollWith(a)

\* A turn of the loop in which the engine reports the channel as not
\* playing or returns an error.
PtePollEnds ==
    \E a \in EngineAnswers : ~(a[1] = FmodOk /\ a[2] = 1) /\ PtePollWith(a)

\* ------------------------------------------------------------ WAV export
\* TLC's integers are 32-bit, so a c_ushort or c_uint value is kept as its
\* bytes, least significant first, and the arithmetic is done on the bytes.

\* An `as u16` / `as u32` cast and write_le_u16 / write_le_u32 / write_le_i32:
\* the n low bytes of x, least significant first (an i32 is written as its
\* two's complement bits).
LE(x, n) == [i \in 1..n |-> (x \div (256 ^ (i - 1))) % 256]

\* Reading a little-endian field back from bytes.
RECURSIVE FromLE(_)
FromLE(b) == IF b = <<>> THEN 0 ELSE Head(b) + 256 * FromLE(Tail(b))

RECURSIVE SumTo(_, _)
SumTo(f, k) == IF k = 0 THEN 0 ELSE f[k] + SumTo(f, k - 1)

\* Column k of the schoolbook product of a and b.
Conv(a, b, k) == SumTo([i \in 1..k |-> a[i] * b[k + 1 - i]], k)

RECURSIVE Carry(_, _, _)
Carry(a, b, k) ==
    IF k = 1 THEN 0 ELSE (Conv(a, b, k - 1) + Carry(a, b, k - 1)) \div 256

\* a * b in the width of a: the product wraps (u16 * u16, u32 * u32).
WMul(a, b) == [k \in 1..Len(a) |-> (Conv(a, b, k) + Carry(a, b, k)) % 256]

RECURSIVE RemAbove(_, _, _)
RemAbove(a, d, k) ==
    IF k = Len(a) THEN 0 ELSE (RemAbove(a, d, k + 1) * 256 + a[k + 1]) % d

\* a / d in the width of a: integer division, truncating.
WDiv(a, d) == [k \in 1..Len(a) |-> (RemAbove(a, d, k) * 256 + a[k]) \div d]

\* mem::size_of::<RiffChunk>(): id [c_char, ..4] and size c_int.
SizeOfRiffChunk == 4 * 1 + 4

\* mem::size_of::<FmtChunk>(): a RiffChunk, then u16 u16 u32 u32 u16 u16.
SizeOfFmtChunk == SizeOfRiffChunk + 2 + 2 + 4 + 4 + 2 + 2

\* The chunk ids, as the i8 casts of their characters.
IdRIFF == <<82, 73, 70, 70>>
IdWAVE == <<87, 65, 86, 69>>
IdFmt == <<102, 109, 116, 32>>
IdData == <<100, 97, 116, 97>>

\* fmt_chunk of save_to_wav, from the engine's channels, bits and rate.
FmtChunk(channels, bits, rate) ==
    [id |-> IdFmt,
     size |-> SizeOfFmtChunk - SizeOfRiffChunk,
     w_format_tag |-> LE(1, 2),
     n_channels |-> LE(channels, 2),
     n_samples_per_sec |-> LE(rate, 4),
     n_avg_bytes_per_sec |->
        WDiv(WMul(WMul(LE(rate, 4), LE(channels, 4)), LE(bits, 4)), 8),
     n_block_align |->
        WDiv(WMul(WMul(LE(1, 2), LE(channels, 2)), LE(bits, 2)), 8),
     w_bits_per_sample |-> LE(bits, 2)]

\* data_chunk of save_to_wav.
DataChunk(len_bytes) == [id |-> IdData, size |-> len_bytes]

\* wav_header of save_to_wav.
WavHeader(len_bytes) ==
    [id |-> IdRIFF,
     size |-> SizeOfFmtChunk + SizeOfRiffChunk + len_bytes,
     riff_type |-> IdWAVE]

\* The bytes of the "wav header" writes.
WavHeaderBytes(w) == w.id \o LE(w.size, 4) \o w.riff_type

\* Mutant of the fmt chunk writes: sample rate and byte rate written in the
\* opposite order.
FmtChunkBytes_RatesSwapped(f) ==
    f.id \o LE(f.size, 4) \o f.w_format_tag \o f.n_channels
    \o f.n_avg_bytes_per_sec \o f.n_samples_per_sec
    \o f.n_block_align \o f.w_bits_per_sample

\* The bytes of the "wav chunk" writes.
FmtChunkBytes(f) ==
    f.id \o LE(f.size, 4) \o f.w_format_tag \o f.n_channels
    \o f.n_samples_per_sec \o f.n_avg_bytes_per_sec
    \o f.n_block_align \o f.w_bits_per_sample

\* Mutant of the data chunk writes: the size field is not written.
DataChunkBytes_NoSize(d) == d.id

\* The bytes of the "wav data chunk" writes.
DataChunkBytes(d) == d.id \o LE(d.size, 4)

\* The engine's sample memory of the exported sound: byte i of the payload.
PcmByte(i) == i % 256
Pcm(from, to) == [i \in 1..(to - from + 1) |-> PcmByte(from + i - 1)]

\* Mutant of the formatting: every engine error is rendered the same way.
Format_Generic(e) == "EngineError"

\* format!("{}", e) of an fmod::Result: the name of the variant.
Format(e) == e.code

\* Outcomes of save_to_wav.
OkTrue == [tag |-> "Ok", val |-> "true"]
ErrString(s) == [tag |-> "Err", val |-> s]
Panicked == [tag |-> "panic", val |-> "unwrap"]
Crashed == [tag |-> "crash", val |-> "invalid read"]
NoResult == [tag |-> "none", val |-> ""]

NoFile == [exists |-> FALSE, bytes |-> <<>>]
FileOf(b) == [exists |-> TRUE, bytes |-> b]

\* One entry of the event log of a run: an engine call with its native
\* reference, result and region lengths (a, b); a group of writes with its
\* byte count a and its position b (1 header, 2 fmt chunk, 3 data header,
\* 4 payload); the file creation, the flush, or the return.
Ev(ev, ref, res, a, b) == [ev |-> ev, ref |-> ref, res |-> res, a |-> a, b |-> b]

\* What FMOD_Sound_Lock(sound, 0, len) may answer: an error (outputs left
\* null and 0), or two regions whose lengths add up to len.
LockOutcomes(len) ==
    {[res |-> e, len1 |-> 0, len2 |-> 0] : e \in FmodErrors}
    \cup {[res |-> FmodOk, len1 |-> n, len2 |-> len - n] : n \in 0..len}

\* What the file system may do: nothing wrong, File::create fails, or the
\* k-th group of writes fails (1 header, 2 fmt chunk, 3 data header, 4 payload).
IoOutcomes == {"none", "create", "w1", "w2", "w3", "w4"}

\* What reading past the end of the first lock region may yield: the bytes
\* that happen to follow, other bytes, or an invalid read that ends the process.
OverReads == {"follow", "zeros", "ones", "crash"}

\* Mutant of the payload read: only the first region's bytes are read.
PayloadRead_FirstRegion(len_bytes, lk, over) ==
    [i \in 1..lk.len1 |-> PcmByte(i)]

\* buf_as_slice(ptr1, len_bytes): len_bytes bytes read from the start of the
\* first region, which holds only lk.len1 bytes.
PayloadRead(len_bytes, lk, over) ==
    [i \in 1..len_bytes |->
        IF i <= lk.len1 THEN PcmByte(i)
        ELSE IF over = "follow" THEN PcmByte(i)
        ELSE IF over = "zeros" THEN 0 ELSE 255]

\* The environment of one run.
WavEnvs(len) ==
    [rLen : FmodResults, rFmt : FmodResults, rDef : FmodResults,
     io : IoOutcomes, lk : LockOutcomes(len), over : OverReads,
     rUnl : FmodResults]

\* Mutant of the end of save_to_wav: success is returned before the unlock
\* and before the writer is flushed.
SuccessTail_ReturnFirst(evUnlock, evFlush, evReturn) ==
    <<evReturn, evUnlock, evFlush>>

\* The end of save_to_wav after the payload write: the unlock call, the end
\* of the block (buf goes out of scope and is flushed), then Ok(true).
SuccessTail(evUnlock, evFlush, evReturn) == <<evUnlock, evFlush, evReturn>>

\* Sound::save_to_wav, from its first statement to its return, for the
\* native reference sound, the engine's answers inp and the environment env.
SaveToWavRun(sound, inp, env) ==
    LET len_bytes == inp.len
        evLen == Ev("FMOD_Sound_GetLength", sound, env.rLen.code, 0, 0)
        evFmt == Ev("FMOD_Sound_GetFormat", sound, env.rFmt.code, 0, 0)
        evDef == Ev("FMOD_Sound_GetDefaults", sound, env.rDef.code, 0, 0)
        evCreate == Ev("File::create", Null, IF env.io = "create" THEN "Err" ELSE "Ok", 0, 0)
        evWrite(k, io, n) == Ev("write", Null, IF env.io = io THEN "Err" ELSE "Ok", n, k)
        evLock == Ev("FMOD_Sound_Lock", sound, env.lk.res.code, env.lk.len1, env.lk.len2)
        evUnlock == Ev("FMOD_Sound_Unlock", sound, env.rUnl.code, env.lk.len1, env.lk.len2)
        evFlush == Ev("flush", Null, "Ok", 0, 0)
        evReturn == Ev("return", Null, "Ok", 0, 0)
        fmt_chunk == FmtChunk(inp.channels, inp.bits, inp.rate)
        data_chunk == DataChunk(len_bytes)
        wav_header == WavHeader(len_bytes)
        b1 == WavHeaderBytes(wav_header)
        b2 == b1 \o FmtChunkBytes(fmt_chunk)
        b3 == b2 \o DataChunkBytes(data_chunk)
        overread == len_bytes > env.lk.len1
        b4 == b3 \o PayloadRead(len_bytes, env.lk, env.over)
        l0 == <<evLen>>
        l1 == l0 \o <<evFmt>>
        l2 == l1 \o <<evDef>>
        l3 == l2 \o <<evCreate>>
        l4 == l3 \o <<evWrite(1, "w1", 12)>>
        l5 == l4 \o <<evWrite(2, "w2", 24)>>
        l6 == l5 \o <<evWrite(3, "w3", 8)>>
        l7 == l6 \o <<evLock>>
        l8 == l7 \o <<evWrite(4, "w4", len_bytes)>>
        l9 == l8 \o SuccessTail(evUnlock, evFlush, evReturn)
        out(r, f, l) == [pc |-> "done", result |-> r, file |-> f, log |-> l]
    IN  IF env.rLen # FmodOk THEN out(ErrString(Format(env.rLen)), NoFile, l0)
        ELSE IF env.rFmt # FmodOk THEN out(ErrString(Format(env.rFmt)), NoFile, l1)
        ELSE IF env.rDef # FmodOk THEN out(ErrString(Format(env.rDef)), NoFile, l2)
        ELSE IF env.io = "create" THEN out(ErrString("IoError"), NoFile, l3)
        ELSE IF env.io = "w1" THEN out(Panicked, FileOf(<<>>), l4)
        ELSE IF env.io = "w2" THEN out(Panicked, FileOf(b1), l5)
        ELSE IF env.io = "w3" THEN out(Panicked, FileOf(b2), l6)
        ELSE IF overread /\ env.over = "crash" THEN out(Crashed, FileOf(<<>>), l7)
        ELSE IF env.io = "w4" THEN out(Panicked, FileOf(b3), l8)
        ELSE out(OkTrue, FileOf(b4), l9)

WavIdle == [pc |-> "idle", result |-> NoResult, file |-> NoFile, log |-> <<>>]

\* A call of save_to_wav on handle h (one export in a run of the model).
SaveToWav(h) ==
    /\ handles[h].st = "live"
    /\ wav.pc = "idle"
    /\ \E env \in WavEnvs(wavIn.len) :
        wav' = SaveToWavRun(handles[h].sound, wavIn, env)
    /\ UNCHANGED <<regVars, wavIn, ud, pte>>

\* ---------------------------------------------------------- specification
Init ==
    /\ handles = [h \in Handles |-> NoSound]
    /\ alive = {}
    /\ relCalls = [h \in Handles |-> 0]
    /\ locked = [h \in Handles |-> 0]
    /\ chan = NoChannel
    /\ last = NoOp
    /\ wavIn = [channels |-> 2, bits |-> 16, rate |-> 44100, len |-> 0]
    /\ wav = WavIdle
    /\ ud = NoUserData
    /\ pte = PteIdle

\* The sound registry: creation, traversal, release, locks, user data.
Next ==
    \/ \E h \in Handles : CreateSound(h)
    \/ \E h \in Handles, h2 \in Handles : GetSubSound(h, h2)
    \/ \E h \in Handles : Release(h)
    \/ \E h \in Handles : Drop(h)
    \/ \E h \in Handles, h2 \in Handles : SetSubSound(h, h2)
    \/ \E h \in Handles : GetLength(h)
    \/ \E h \in Handles : GetUserData(h)
    \/ \E h \in Handles : Lock(h)
    \/ \E h \in Handles : Unlock(h)

Spec == Init /\ [][Next]_vars

\* Playback: sounds, the channel that plays them, their accessors and the
\* handles obtained by traversal.
NextChan ==
    \/ \E h \in Handles : CreateSound(h)
    \/ \E h \in Handles, h2 \in Handles : GetSubSound(h, h2)
    \/ \E h \in Handles : Release(h)
    \/ \E h \in Handles : Drop(h)
    \/ \E h \in Handles : GetLength(h)
    \/ \E h \in Handles : GetFormat(h)
    \/ \E h \in Handles : SetMode(h)
    \/ \E h \in Handles : Play(h)
    \/ ChannelNew
    \/ \E h \in Handles : PlayWithParameters(h)
    \/ ChannelRelease
    \/ ChannelDrop
    \/ ChannelIsPlaying
    \/ ChannelGetVolume
    \/ ChannelSetVolume
    \/ \E h2 \in Handles : GetCurrentSound(h2)

SpecChan == Init /\ [][NextChan]_vars

\* User data: sounds, handles that alias them, set_user_data, get_user_data.
NextData ==
    \/ \E h \in Handles : CreateSound(h)
    \/ \E h \in Handles, h2 \in Handles : GetSubSound(h, h2)
    \/ \E h \in Handles, d \in UserData : SetUserData(h, d)
    \/ \E h \in Handles : GetUserData(h)

SpecData == Init /\ [][NextData]_vars

\* play_to_the_end on sounds that are created, released and dropped. The
\* engine eventually reports the channel as not playing or returns an error.
NextPte ==
    \/ \E h \in Handles : CreateSound(h)
    \/ \E h \in Handles : Release(h)
    \/ \E h \in Handles : Drop(h)
    \/ \E h \in Handles : PteCall(h)
    \/ PtePoll

SpecPte == Init /\ [][NextPte]_vars /\ WF_vars(PtePollEnds)

\* The sounds the export is run on.
WavChannels == {1, 2, 4096}
WavBits == {8, 16}
WavRates == {8000, 44100}

InitWav ==
    /\ handles \in {[h \in Handles |-> IF h = "h1" THEN s ELSE NoSound] :
                        s \in {from_ptr_first(1), from_ptr(1)}}
    /\ alive = {1}
    /\ relCalls = [h \in Handles |-> 0]
    /\ locked = [h \in Handles |-> 0]
    /\ chan = NoChannel
    /\ last = NoOp
    /\ wavIn \in [channels : WavChannels, bits : WavBits, rate : WavRates,
                  len : 0..MaxLen]
    /\ wav = WavIdle
    /\ ud = NoUserData
    /\ pte = PteIdle

NextWav == \E h \in Handles : SaveToWav(h)

SpecWav == InitWav /\ [][NextWav]_vars

\* =================================================================== claims
\* ------------------------------------------------------- handle registry
IsReleaseOp == last.op \in {"release", "drop"}

\* C1: for every owning handle (from_ptr_first), over any sequence of
\* release() calls and the drop, and whatever the engine answers,
\* FMOD_Sound_Release is invoked at most once through that handle.
C1_ReleaseAtMostOnce ==
    \A h \in Handles : handles[h].via = "from_ptr_first" => relCalls[h] <= 1

\* C2: a borrowed handle (from_ptr) never triggers FMOD_Sound_Release:
\* neither release() nor the drop reaches the engine, release() reports
\* fmod::Ok, and the native reference of the handle is left unchanged.
C2_BorrowedNeverReleases ==
    /\ \A h \in Handles : handles[h].via = "from_ptr" => relCalls[h] = 0
    /\ (IsReleaseOp /\ handles[last.h].via = "from_ptr") =>
            /\ last.calls = <<>>
            /\ last.res = FmodOk
            /\ handles[last.h].sound = last.pre

\* C2 witness: a borrowed handle holding a real native reference was dropped.
C2_Witness ==
    /\ last.op = "drop"
    /\ handles[last.h].via = "from_ptr"
    /\ handles[last.h].st = "dropped"
    /\ last.pre # Null

\* C3: an accessor called on a handle after its release reports
\* UseAfterRelease and performs no engine call.
C3_UseAfterRelease ==
    (/\ last.op = "get_length"
     /\ handles[last.h].via = "from_ptr_first"
     /\ last.pre = Null)
    => (last.res = [code |-> "UseAfterRelease"] /\ last.calls = <<>>)

\* C4: on one handle every successful lock is followed by exactly one unlock
\* before any further lock and before the handle is released.
C4_LockPairing ==
    /\ \A h \in Handles : locked[h] <= 1
    /\ (IsReleaseOp /\ last.calls # <<>>) => locked[last.h] = 0

\* C9: when the engine's release call on an owning, live handle fails, the
\* failure code is returned and the handle is nevertheless marked dead, so
\* that later release() calls and the drop do not reach the engine.
C9_FailedReleaseMarksDead ==
    (IsReleaseOp /\ last.calls # <<>> /\ last.res # FmodOk) =>
        /\ last.res \in FmodErrors
        /\ handles[last.h].sound = Null

\* The forwarding accessors of Sound and Channel, by what they return.
GetterOps == {"get_length", "get_format", "get_volume", "is_playing"}
SetterOps == {"set_mode", "set_volume"}

C15_NoFailureTaggedOk ==
    /\ last.tag = "Err" => last.res # FmodOk
    /\ (last.tag = "Ok" \/ (last.tag = "code" /\ last.res = FmodOk)) =>
            \A i \in 1..Len(last.calls) : last.calls[i].code = "Ok"

\* The live handles that own native id p.
Owners(p) ==
    {h \in Handles : /\ handles[h].st = "live"
                     /\ handles[h].can_be_deleted
                     /\ handles[h].sound = p}

\* The native ids created through the binding whose creating handle is in
\* scope and still holds the reference.
LiveIds ==
    {p \in NativeIds : \E h \in Handles : /\ handles[h].st = "live"
                                          /\ handles[h].via = "from_ptr_first"
                                          /\ handles[h].sound = p}

C18_LockStateSurfaced ==
    /\ (last.op = "unlock" /\ last.lk = 0) => last.res # FmodOk
    /\ (last.op = "lock" /\ last.lk > 0) => last.tag = "Err"

\* C19: when set_sub_sound has attached a sub-sound to a parent, the engine
\* release call for that sub-sound is not issued while the parent is live
\* and holds its reference.
C19_SubSoundOutlivesParent ==
    (/\ last.op = "set_sub_sound"
     /\ last.calls[1].code = "Ok"
     /\ last.pre # Null
     /\ handles[last.h].st = "live"
     /\ handles[last.h].sound = last.pre)
    => \A i \in 2..Len(last.calls) :
            ~(/\ last.calls[i].fn = "FMOD_Sound_Release"
              /\ last.calls[i].ref = last.calls[1].out)

\* C25: an unlock that follows a successful lock on the same handle passes
\* to the engine the region address that the lock obtained from it.
C25_UnlockPassesLockRegions ==
    [][(/\ last.op = "lock"
        /\ last.tag = "Ok"
        /\ last'.op = "unlock"
        /\ last'.h = last.h)
       => last'.calls[1].out = last.calls[1].out]_vars

\* ----------------------------------------------------------- WAV exporter
\* The n bytes at (zero-based) file offset off.
Field(b, off, n) == SubSeq(b, off + 1, off + n)

\* The bytes that follow the three headers.
Payload(b) == SubSeq(b, 45, Len(b))

\* The entries of the event log for one kind of event.
LogOf(ev) == {i \in DOMAIN wav.log : wav.log[i].ev = ev}

WavDone == wav.pc = "done"
WavSucceeded == WavDone /\ wav.result = OkTrue

\* The queries, the file creation and every write went well (the lock and
\* the unlock may still have failed).
QueriesAndFileOk ==
    \A i \in DOMAIN wav.log :
        wav.log[i].ev \in {"FMOD_Sound_GetLength", "FMOD_Sound_GetFormat",
                           "FMOD_Sound_GetDefaults", "File::create", "write"}
        => wav.log[i].res = "Ok"

\* C5: for every payload length L the RIFF size field at file offset 4 is
\* 36 + L, the file size minus 8.
C5_RiffSizeField ==
    WavSucceeded => FromLE(Field(wav.file.bytes, 4, 4)) = 36 + wavIn.len

C7_EmptyExport ==
    (WavDone /\ wavIn.len = 0 /\ QueriesAndFileOk) =>
        /\ wav.result = OkTrue
        /\ wav.file.exists
        /\ Len(wav.file.bytes) = 44
        /\ FromLE(Field(wav.file.bytes, 40, 4)) = 0
        /\ Payload(wav.file.bytes) = <<>>

\* C7 witness: a 0-length sound was exported, also with a lock that failed.
C7_Witness ==
    /\ WavSucceeded
    /\ wavIn.len = 0
    /\ \E i \in LogOf("FMOD_Sound_Lock") : wav.log[i].res # "Ok"

\* C8: the payload written after the data chunk header is the bytes of the
\* first lock region followed by those of the second, each with the length
\* the engine reported for it.
C8_PayloadIsBothRegions ==
    (WavSucceeded /\ \E i \in LogOf("FMOD_Sound_Lock") : wav.log[i].res = "Ok")
    => \A i \in LogOf("FMOD_Sound_Lock") :
            Payload(wav.file.bytes) =
                Pcm(1, wav.log[i].a) \o Pcm(wav.log[i].a + 1, wav.log[i].a + wav.log[i].b)

\* C10: if the engine's lock call fails, the export is aborted with the
\* engine's error code: no payload is read or written, no success reported.
C10_LockFailureAborts ==
    WavDone =>
        \A i \in LogOf("FMOD_Sound_Lock") :
            wav.log[i].res # "Ok" =>
                /\ wav.result = ErrString(wav.log[i].res)
                /\ \A j \in LogOf("write") : wav.log[j].b # 4

\* The position of the return in the event log (0 when there is none).
ReturnAt == IF LogOf("return") = {} THEN 0 ELSE CHOOSE i \in LogOf("return") : TRUE

\* C11: if the lock succeeds but the engine's unlock call fails, save_to_wav
\* reports that failure (it does not return success) and the written file
\* is left on disk.
C11_UnlockFailureReported ==
    (/\ WavDone
     /\ \E i \in LogOf("FMOD_Sound_Lock") : wav.log[i].res = "Ok"
     /\ \E i \in LogOf("FMOD_Sound_Unlock") : wav.log[i].res # "Ok")
    => /\ wav.result.tag = "Err"
       /\ wav.file.exists

\* C12: a file-system failure, in File::create or in any write, is returned
\* to the caller as an I/O error and aborts the export; it neither ends the
\* program nor is reported as success.
C12_IoFailureReturned ==
    (/\ WavDone
     /\ \E i \in LogOf("File::create") \cup LogOf("write") : wav.log[i].res = "Err")
    => wav.result = ErrString("IoError")

C17_RatesExact ==
    WavSucceeded =>
        LET b == wav.file.bytes
            cb == wavIn.channels * wavIn.bits
        IN  /\ (cb \div 8 < 65536) => FromLE(Field(b, 32, 2)) = cb \div 8
            /\ (cb % 8 = 0 /\ wavIn.rate <= 2147483647 \div cb) =>
                    FromLE(Field(b, 28, 4)) = wavIn.rate * (cb \div 8)

\* C20: whenever save_to_wav issues the engine lock call, exactly one engine
\* unlock call follows before it terminates, on every exit path of the
\* function (a return or a failed unwrap), the failed payload write included.
C20_UnlockOnEveryPath ==
    (WavDone /\ wav.result.tag # "crash") =>
        \A i \in LogOf("FMOD_Sound_Lock") :
            Cardinality({j \in LogOf("FMOD_Sound_Unlock") : i < j}) = 1

\* The three engine queries save_to_wav starts with.
QueryEvents ==
    LogOf("FMOD_Sound_GetLength") \cup LogOf("FMOD_Sound_GetFormat")
        \cup LogOf("FMOD_Sound_GetDefaults")

\* C21: when the length, format or default-rate query fails, save_to_wav
\* returns a failure carrying that engine error and does nothing else: the
\* failed query is its last step, no file is created, no byte is written
\* and no lock or unlock call is issued.
C21_QueryFailureNoEffect ==
    \A i \in QueryEvents :
        (WavDone /\ wav.log[i].res # "Ok") =>
            /\ wav.result = ErrString(wav.log[i].res)
            /\ i = Len(wav.log)
            /\ ~wav.file.exists
            /\ wav.file.bytes = <<>>
            /\ LogOf("File::create") \cup LogOf("write") = {}
            /\ LogOf("FMOD_Sound_Lock") \cup LogOf("FMOD_Sound_Unlock") = {}

\* C21 witness: the default-rate query, the last of the three, failed.
C21_Witness ==
    /\ WavDone
    /\ \E i \in LogOf("FMOD_Sound_GetDefaults") : wav.log[i].res = "ErrNotReady"
    /\ wav.result.tag = "Err"

\* Every event of kind a in the log precedes every event of kind b.
Precedes(a, b) == \A i \in LogOf(a), j \in LogOf(b) : i < j

\* C22: save_to_wav runs the format and default-rate queries, then the
\* length query, then the lock, then the writes of the headers and the
\* payload, then the unlock; no write precedes the lock.
C22_StepOrder ==
    WavDone =>
        /\ Precedes("FMOD_Sound_GetFormat", "FMOD_Sound_GetLength")
        /\ Precedes("FMOD_Sound_GetDefaults", "FMOD_Sound_GetLength")
        /\ Precedes("FMOD_Sound_GetLength", "FMOD_Sound_Lock")
        /\ Precedes("FMOD_Sound_Lock", "write")
        /\ Precedes("write", "FMOD_Sound_Unlock")

\* C29: for every payload length L and whatever region lengths the lock
\* reports, the file of a successful export has 44 + L bytes and its data
\* chunk size field equals the number of bytes after the data chunk header.
C29_FileLength ==
    WavSucceeded =>
        /\ Len(wav.file.bytes) = 44 + wavIn.len
        /\ FromLE(Field(wav.file.bytes, 40, 4)) = Len(Payload(wav.file.bytes))

\* C29 witness: a successful export whose lock reported a first region
\* shorter than the payload.
C29_Witness ==
    /\ WavSucceeded
    /\ wavIn.len > 1
    /\ \E i \in LogOf("FMOD_Sound_Lock") :
            wav.log[i].res = "Ok" /\ wav.log[i].a < wavIn.len /\ wav.log[i].b > 0

C26_PlayWithParametersSetsChannel ==
    (last.op = "play_with_parameters" /\ last.res = FmodOk) =>
        /\ is_init(chan)
        /\ chan.channel = last.calls[2].out

\* C28: releasing or dropping a Channel issues no engine call and changes
\* nothing the engine holds; it clears the wrapper's reference, so is_init()
\* is false afterwards, and a release of a Channel whose reference is
\* already null changes nothing further.
C28_ChannelReleaseIsLocal ==
    [][last'.op \in {"channel_release", "channel_drop"} =>
            /\ last'.calls = <<>>
            /\ ~is_init(chan')
            /\ alive' = alive
            /\ handles' = handles
            /\ relCalls' = relCalls
            /\ ~is_init(chan) => chan'.channel = chan.channel]_vars

\* C28 witness: a Channel that held an engine channel was released.
C28_Witness ==
    /\ last.op = "channel_release"
    /\ last.pre # Null
    /\ chan.st = "live"
    /\ ~is_init(chan)

\* ------------------------------------------------------------- user data
\* C24: after set_user_data(d) returned fmod::Ok on a sound, get_user_data
\* on that sound returns d whenever the engine's read succeeds, also after
\* the first set_user_data on a sound whose slot was empty.
C24_UserDataRoundTrip ==
    (/\ last.op = "get_user_data"
     /\ last.pre # Null
     /\ ud.want[last.pre] # Null
     /\ last.calls[1].code = "Ok")
    => (last.tag = "Ok" /\ last.val = ud.want[last.pre])

\* ------------------------------------------------------- play_to_the_end
\* What holds at every point of a play_to_the_end call.
PteSafe ==
    /\ (pte.pc = "done" /\ pte.res = "Ok") => pte.cur = "stopped"
    /\ (pte.pc = "done" /\ pte.play # "Ok") =>
            (pte.res = pte.play /\ pte.cur = "none")
    /\ pte.cur \notin {"none", "playing", "stopped"} =>
            (pte.pc = "done" /\ pte.res = pte.cur)
    /\ pte.cur = "stopped" => (pte.pc = "done" /\ pte.res = "Ok")
    /\ pte.prev \in {"none", "playing"}

\* C27: when the engine eventually reports the channel as not playing or
\* returns an error, play_to_the_end terminates; it returns fmod::Ok only
\* after a last poll that reported not playing, returns the engine's error
\* without a further poll when play or a poll fails, and issues no poll
\* after one that reported not playing.
C27_PlayToTheEnd ==
    /\ []PteSafe
    /\ (pte.pc = "polling") ~> (pte.pc = "done")

\* C27 witness: the loop polled a playing channel, then one that had
\* stopped, and fmod::Ok was returned.
C27_Witness ==
    /\ pte.pc = "done"
    /\ pte.res = "Ok"
    /\ pte.prev = "playing"
    /\ pte.cur = "stopped"

====
